---- MODULE Spec2Model ----
(***************************************************************************)
(* Ximage: the batch compression front end of src/src/App.vue.            *)
(*                                                                         *)
(* The component is single threaded: a handler runs to its next await     *)
(* without interleaving, so every action below is one such synchronous    *)
(* run (a handler up to its first await, or the continuation of an await  *)
(* up to the next one).  The Rust backend behind invoke(...) is not part  *)
(* of the sources; it is the environment of the component and is modelled *)
(* from the specification (sections 3, 4.7 and 7).                        *)
(*                                                                         *)
(* Representation.  A file name is the sequence of its dot separated      *)
(* parts (<<"a", "png">> is a.png), a path is the sequence of its slash   *)
(* separated segments and the empty string path '' is << >>.  An optional *)
(* value (x || undefined) is << >> for undefined and <<x>> otherwise.     *)
(* The bytes of a file are modelled by their length.  Indices are the     *)
(* 0-based indices of the code; files[index + 1] is files.value[index].   *)
(***************************************************************************)
EXTENDS Integers, Sequences, FiniteSets, TLC

\* ------------------------------------------------------------------ bounds

\* Longest file list the model builds.
MaxFiles == 2
\* Number of changes the user makes to the settings panel.
MaxSettingChanges == 1
\* Number of addFileByPath calls that may be awaiting stat/readFile at once.
MaxImporting == 1
\* The same number in the specification of the imports alone.
MaxOverlapping == 2
\* Longest file list in the specification of the batches over one dropped image.
MaxGrownFiles == 5

\* ------------------------------------------------------- input vocabulary

NameA == <<"a", "png">>
NameGif == <<"c", "gif">>
NameTxt == <<"notes", "txt">>

\* The files of the user's disk that a file picker or a native drop can name.
Paths == { <<"d", NameA>> }

\* Sizes in bytes of the files before any batch has run.
InitialSizes == { 251 }

\* The File objects a browser drop can carry.
DropFiles ==
    { [name |-> n[1], type |-> n[2], size |-> size] :
        n \in { <<NameA, "image/png">>, <<NameGif, "image/gif">>,
                <<NameTxt, "text/plain">> },
        size \in InitialSizes }

\* The one image among them that the batches over a growing list are fed with.
ImageDrops == { file \in DropFiles : file.name = NameA }

\* The folders the output folder dialog can return.
OutputDirs == { "o" }

\* The sliders with min="0".
SliderStops_FromZero == { 0, 100 }

\* The positions the quality sliders are moved to (min and max of the range).
SliderStops == { 10, 100 }

\* The sizes a successful compression can produce.
CompressedSizes == { 50, 250 }

Undefined == << >>
Some(x) == <<x>>

\* ------------------------------------------------------------ string helpers

\* String.prototype.toUpperCase on the extensions of the vocabulary.
toUpperCase(s) ==
    CASE s = "png"  -> "PNG"
      [] s = "gif"  -> "GIF"
      [] s = "txt"  -> "TXT"
      [] s = "jpg"  -> "JPG"
      [] s = "jpeg" -> "JPEG"
      [] s = "webp" -> "WEBP"
      [] OTHER      -> s

\* String.prototype.toLowerCase on the formats of the vocabulary.
toLowerCase(s) ==
    CASE s = "PNG"     -> "png"
      [] s = "GIF"     -> "gif"
      [] s = "TXT"     -> "txt"
      [] s = "JPG"     -> "jpg"
      [] s = "JPEG"    -> "jpeg"
      [] s = "WEBP"    -> "webp"
      [] s = "UNKNOWN" -> "unknown"
      [] OTHER         -> s

\* x.split(sep).pop(): the last element of the split.
Pop(parts) == IF Len(parts) = 0 THEN "" ELSE parts[Len(parts)]

\* fileName.split('.').pop()?.toUpperCase() || 'UNKNOWN'
FormatOf(fileName) ==
    LET ext == toUpperCase(Pop(fileName))
    IN  IF ext = "" THEN "UNKNOWN" ELSE ext

\* filePath.split('/').pop() || 'unknown'
FileNameOf(filePath) ==
    IF Len(filePath) = 0 \/ filePath[Len(filePath)] = << >>
    THEN <<"unknown">>
    ELSE filePath[Len(filePath)]

\* Math.ceil in the place of Math.round.
Round_Ceil(num, den) == (num + den - 1) \div den

\* Math.round(x) for x = num / den with den > 0: floor(x + 1/2).
Round(num, den) == (2 * num + den) \div (2 * den)

\* ---------------------------------------------------------------- state

VARIABLES
    files,           \* files.value
    isCompressing,   \* isCompressing.value
    totalProgress,   \* totalProgress.value
    outputPath,      \* outputPath.value
    settings,        \* settings.value
    alertOpen,       \* the alert of compressImages is on screen
    pc,              \* where the running compressImages call awaits
    index,           \* its loop variable
    processedCount,  \* its counter
    request,         \* the invoke call the backend has not answered yet
    response,        \* the backend's answer, not delivered yet
    importing,       \* the addFileByPath calls awaiting stat or readFile
    disk,            \* size of each file of Paths on the disk
    sent,            \* history: the requests sent in the last batch started
    outcomes,        \* history: the indices set to success/error in that batch
    startLen,        \* history: the length of the list when that batch started
    changes,         \* history: changes made in the settings panel
    storedSettings,  \* localStorage['Ximage:settings']
    storedOutputPath,\* localStorage['Ximage:output-path']
    restored         \* history: a restart has read stored settings and a stored folder

vars == <<files, isCompressing, totalProgress, outputPath, settings, alertOpen,
          pc, index, processedCount, request, response, importing, disk,
          sent, outcomes, startLen, changes, storedSettings, storedOutputPath,
          restored>>

\* The local storage and the history of its use.
storage == <<storedSettings, storedOutputPath, restored>>

batchVars == <<isCompressing, totalProgress, pc, index, processedCount,
               request, response, sent, outcomes, startLen>>

\* const settings = ref({...}): the defaults.
DefaultSettings ==
    [lossless |-> FALSE, qualityJpg |-> 50, qualityWebp |-> 65,
     qualityPng |-> 80, theme |-> "system"]

Init ==
    /\ files = << >>
    /\ isCompressing = FALSE
    /\ totalProgress = 0
    /\ outputPath = ""
    /\ settings = DefaultSettings
    /\ alertOpen = FALSE
    /\ pc = "idle"
    /\ index = 0
    /\ processedCount = 0
    /\ request = << >>
    /\ response = << >>
    /\ importing = << >>
    /\ disk \in [Paths -> InitialSizes]
    /\ sent = << >>
    /\ outcomes = << >>
    /\ startLen = 0
    /\ changes = 0
    /\ storedSettings = Undefined
    /\ storedOutputPath = Undefined
    /\ restored = FALSE

\* alert() blocks the event loop: while the alert of compressImages is on
\* screen no handler and no continuation runs.
eventLoopFree == ~alertOpen

\* ------------------------------------------------------------ file import

\* The FileItem pushed by addFileByPath.
PathItem(filePath, size) ==
    [name |-> FileNameOf(filePath), path |-> filePath, size |-> size,
     format |-> FormatOf(FileNameOf(filePath)), status |-> "pending",
     compressedSize |-> 0, compressionRatio |-> 0, url |-> "blob:"]

\* The two early returns of addFileByPath: true when the call goes on.
addFileByPathAccepts(f, filePath) ==
    /\ FormatOf(FileNameOf(filePath)) \in {"PNG", "JPG", "JPEG", "WEBP"}
    /\ ~ \E i \in 1..Len(f) : f[i].path = filePath

\* addFileByPath up to its first await: the call waits for stat.  At most
\* maxImporting calls are awaiting at once.
addFileByPathWithin(filePath, maxImporting) ==
    /\ IF addFileByPathAccepts(files, filePath)
       THEN /\ Len(importing) < maxImporting
            /\ importing' = Append(importing, [path |-> filePath, metadata |-> Undefined])
       ELSE UNCHANGED importing
    /\ UNCHANGED <<files, outputPath, settings, alertOpen, disk, changes, storage>>
    /\ UNCHANGED batchVars

addFileByPath(filePath) == addFileByPathWithin(filePath, MaxImporting)

\* selectFiles: the dialog returns a path.  The empty list shows the drop
\* area button, a non-empty one the Add button, disabled while compressing.
selectFilesWithin(maxImporting) ==
    /\ eventLoopFree
    /\ Len(files) = 0 \/ ~isCompressing
    /\ \E filePath \in Paths : addFileByPathWithin(filePath, maxImporting)

selectFiles == selectFilesWithin(MaxImporting)

\* The onDragDropEvent listener on a drop with paths.
onDragDropEventWithin(maxImporting) ==
    /\ eventLoopFree
    /\ \E filePath \in Paths : addFileByPathWithin(filePath, maxImporting)

onDragDropEvent == onDragDropEventWithin(MaxImporting)

RemoveAt(s, k) == [j \in 1..(Len(s) - 1) |-> IF j < k THEN s[j] ELSE s[j + 1]]

\* stat resolved: metadata.size is the size on the disk now; the call waits
\* for readFile.
addFileByPathStat ==
    /\ eventLoopFree
    /\ \E k \in 1..Len(importing) :
          /\ importing[k].metadata = Undefined
          /\ importing' = [importing EXCEPT ![k].metadata = Some(disk[importing[k].path])]
    /\ UNCHANGED <<files, outputPath, settings, alertOpen, disk, changes, storage>>
    /\ UNCHANGED batchVars

\* readFile resolved: the push of addFileByPath.
addFileByPathResolved ==
    /\ eventLoopFree
    /\ \E k \in 1..Len(importing) :
          /\ importing[k].metadata # Undefined
          /\ Len(files) < MaxFiles
          /\ files' = Append(files, PathItem(importing[k].path, importing[k].metadata[1]))
          /\ importing' = RemoveAt(importing, k)
    /\ UNCHANGED <<outputPath, settings, alertOpen, disk, changes, storage>>
    /\ UNCHANGED batchVars

\* stat or readFile rejected: the catch of addFileByPath.
addFileByPathRejected ==
    /\ eventLoopFree
    /\ \E k \in 1..Len(importing) : importing' = RemoveAt(importing, k)
    /\ UNCHANGED <<files, outputPath, settings, alertOpen, disk, changes, storage>>
    /\ UNCHANGED batchVars

\* /\.(png|jpg|jpeg|webp)$/i.test(file.name)
HasImageExtension(fileName) ==
    /\ Len(fileName) >= 2
    /\ toUpperCase(Pop(fileName)) \in {"PNG", "JPG", "JPEG", "WEBP"}

\* file.type.startsWith('image/')
HasImageType(type) == type \in {"image/png", "image/gif", "image/jpeg", "image/webp"}

isImage(file) == HasImageType(file.type) \/ HasImageExtension(file.name)

\* The FileItem pushed by processFile.
DropItem(file) ==
    [name |-> file.name, path |-> << >>, size |-> file.size,
     format |-> FormatOf(file.name), status |-> "pending",
     compressedSize |-> 0, compressionRatio |-> 0, url |-> "blob:"]

\* onDrop with one file of dropped: processFile.  The list grows to maxFiles
\* files at most.
processFileWithin(dropped, maxFiles) ==
    /\ eventLoopFree
    /\ \E file \in dropped :
          IF isImage(file)
          THEN /\ Len(files) < maxFiles
               /\ files' = Append(files, DropItem(file))
          ELSE UNCHANGED files
    /\ UNCHANGED <<outputPath, settings, alertOpen, importing, disk, changes, storage>>
    /\ UNCHANGED batchVars

processFile == processFileWithin(DropFiles, MaxFiles)

\* The Clear button that is disabled on an empty list only.
clearDisabled_EmptyListOnly == Len(files) = 0

\* :disabled of the Clear button (line 1820).
clearDisabled == Len(files) = 0 \/ isCompressing

\* clearFiles, from its button.  The history variables describe the files of
\* the list and are emptied with it.
clearFiles ==
    /\ eventLoopFree
    /\ ~clearDisabled
    /\ files' = << >>
    /\ sent' = << >> /\ outcomes' = << >> /\ startLen' = 0
    /\ UNCHANGED <<outputPath, settings, alertOpen, importing, disk, changes,
                   isCompressing, totalProgress, pc, index, processedCount,
                   request, response, storage>>

\* ---------------------------------------------------------- local storage

SettingsKeys == <<"lossless", "qualityJpg", "qualityWebp", "qualityPng", "theme">>

\* JSON.stringify(value): the text is modelled by its sequence of
\* <<key, value>> members, in the order of the object's keys.
Stringify(value) == [k \in 1..Len(SettingsKeys) |-> <<SettingsKeys[k], value[SettingsKeys[k]]>>]

\* JSON.parse(text): the object with the members of the text.
Parse(text) ==
    [key \in {text[k][1] : k \in 1..Len(text)} |->
        text[CHOOSE k \in 1..Len(text) : text[k][1] = key][2]]

\* The spread with the operands swapped: { ...parsed, ...settings.value }.
Merge_BaseWins(base, parsed) ==
    [key \in DOMAIN base \cup DOMAIN parsed |->
        IF key \in DOMAIN base THEN base[key] ELSE parsed[key]]

\* { ...settings.value, ...parsed }
Merge(base, parsed) ==
    [key \in DOMAIN base \cup DOMAIN parsed |->
        IF key \in DOMAIN parsed THEN parsed[key] ELSE base[key]]

\* watch(settings, ..., { deep: true }): runs when a setting has changed.
watchSettings(old, new, stored) ==
    IF new # old THEN Some(Stringify(new)) ELSE stored

\* watch(outputPath, ...): runs when outputPath has changed.
watchOutputPath(old, new, stored) ==
    IF new # old
    THEN IF new # "" THEN Some(new) ELSE Undefined
    ELSE stored

\* The object as a CompressionSettings value.
AsSettings(object) ==
    [lossless |-> object["lossless"], qualityJpg |-> object["qualityJpg"],
     qualityWebp |-> object["qualityWebp"], qualityPng |-> object["qualityPng"],
     theme |-> object["theme"]]

\* The settings after the first lines of onMounted.
MountedSettings(stored) ==
    IF stored # Undefined
    THEN AsSettings(Merge(DefaultSettings, Parse(stored[1])))
    ELSE DefaultSettings

\* The output folder after the first lines of onMounted.
MountedOutputPath(stored) ==
    IF stored # Undefined /\ stored[1] # "" THEN stored[1] ELSE ""

\* The application is closed and started again: the refs of a new component
\* instance, then onMounted up to its first await.  What the closed instance
\* was waiting for is dropped; the disk and the local storage stay.  The two
\* assignments of onMounted run the watchers.
restart ==
    /\ files' = << >>
    /\ isCompressing' = FALSE
    /\ totalProgress' = 0
    /\ settings' = MountedSettings(storedSettings)
    /\ outputPath' = MountedOutputPath(storedOutputPath)
    /\ storedSettings' = IF storedSettings # Undefined
                         THEN Some(Stringify(settings'))
                         ELSE storedSettings
    /\ storedOutputPath' = watchOutputPath("", outputPath', storedOutputPath)
    /\ alertOpen' = FALSE
    /\ pc' = "idle" /\ index' = 0 /\ processedCount' = 0
    /\ request' = << >> /\ response' = << >>
    /\ importing' = << >>
    /\ sent' = << >> /\ outcomes' = << >> /\ startLen' = 0
    /\ restored' = (restored \/ (storedSettings # Undefined /\ storedOutputPath # Undefined))
    /\ UNCHANGED <<disk, changes>>

\* ------------------------------------------------------- settings panel

\* The lossless checkbox (v-model="settings.lossless").
toggleLossless ==
    /\ eventLoopFree
    /\ changes < MaxSettingChanges
    /\ settings' = [settings EXCEPT !.lossless = ~@]
    /\ changes' = changes + 1
    /\ storedSettings' = watchSettings(settings, settings', storedSettings)
    /\ UNCHANGED <<files, outputPath, alertOpen, importing, disk,
                   storedOutputPath, restored>>
    /\ UNCHANGED batchVars

\* A slider is rendered only while lossless is off (v-if="!settings.lossless").
sliderShown == ~settings.lossless

\* The JPG quality slider (v-model.number, min 10, max 100).
setQualityJpg ==
    /\ eventLoopFree
    /\ changes < MaxSettingChanges /\ sliderShown
    /\ \E v \in SliderStops : settings' = [settings EXCEPT !.qualityJpg = v]
    /\ changes' = changes + 1
    /\ storedSettings' = watchSettings(settings, settings', storedSettings)
    /\ UNCHANGED <<files, outputPath, alertOpen, importing, disk,
                   storedOutputPath, restored>>
    /\ UNCHANGED batchVars

\* The WEBP quality slider.
setQualityWebp ==
    /\ eventLoopFree
    /\ changes < MaxSettingChanges /\ sliderShown
    /\ \E v \in SliderStops : settings' = [settings EXCEPT !.qualityWebp = v]
    /\ changes' = changes + 1
    /\ storedSettings' = watchSettings(settings, settings', storedSettings)
    /\ UNCHANGED <<files, outputPath, alertOpen, importing, disk,
                   storedOutputPath, restored>>
    /\ UNCHANGED batchVars

\* The PNG quality slider.
setQualityPng ==
    /\ eventLoopFree
    /\ changes < MaxSettingChanges /\ sliderShown
    /\ \E v \in SliderStops : settings' = [settings EXCEPT !.qualityPng = v]
    /\ changes' = changes + 1
    /\ storedSettings' = watchSettings(settings, settings', storedSettings)
    /\ UNCHANGED <<files, outputPath, alertOpen, importing, disk,
                   storedOutputPath, restored>>
    /\ UNCHANGED batchVars

\* The theme select (v-model="settings.theme").
setTheme ==
    /\ eventLoopFree
    /\ changes < MaxSettingChanges
    /\ \E v \in {"system", "light", "dark"} : settings' = [settings EXCEPT !.theme = v]
    /\ changes' = changes + 1
    /\ storedSettings' = watchSettings(settings, settings', storedSettings)
    /\ UNCHANGED <<files, outputPath, alertOpen, importing, disk,
                   storedOutputPath, restored>>
    /\ UNCHANGED batchVars

\* selectOutputPath: the dialog returns a folder, or null when cancelled
\* (selected = "" below), and then outputPath is left alone.
selectOutputPath ==
    /\ eventLoopFree
    /\ \E selected \in OutputDirs \cup {""} :
          outputPath' = IF selected # "" THEN selected ELSE outputPath
    /\ storedOutputPath' = watchOutputPath(outputPath, outputPath', storedOutputPath)
    /\ UNCHANGED <<files, settings, alertOpen, importing, disk, changes,
                   storedSettings, restored>>
    /\ UNCHANGED batchVars

\* ---------------------------------------------------------- compressImages

\* files.value.some(file => !file.path)
hasMissingPath(f) == \E i \in 1..Len(f) : f[i].path = << >>

\* The guard of lines 1621-1627 with every() for some().
submissionBlocked_Every(f, out) ==
    out = "" /\ \A i \in 1..Len(f) : f[i].path = << >>

\* The guard of lines 1621-1627: no output folder and a file without a path.
submissionBlocked(f, out) == out = "" /\ hasMissingPath(f)

\* The guard of line 1619.
listEmpty(f) == Len(f) = 0

\* The reset that sets the files back to pending.
MarkProcessing_Pending(f) == [i \in 1..Len(f) |-> [f[i] EXCEPT !.status = "pending"]]

\* files.value.forEach(file => { file.status = 'processing' })
MarkProcessing(f) == [i \in 1..Len(f) |-> [f[i] EXCEPT !.status = "processing"]]

\* The progress taken before processedCount is incremented.
Progress_BeforeIncrement(count, len) == Round((count - 1) * 100, len)

\* The progress with the operands of the division swapped.
Progress_Swapped(count, len) == Round(len * 100, count)

\* Math.round((processedCount / files.value.length) * 100)
Progress(count, len) == Round(count * 100, len)

\* Math.round((1 - compressedSize / originalSize) * 100), originalSize > 0.
\* On the sizes of the vocabulary the double arithmetic of the code and the
\* exact arithmetic below round to the same integer (no quotient is within
\* 1e-9 of a half).
Ratio(originalSize, compressedSize) ==
    Round((originalSize - compressedSize) * 100, originalSize)

\* The catch that sets every file of the list to error.
ItemError_All(f, i) == [j \in 1..Len(f) |-> [f[j] EXCEPT !.status = "error"]]

\* The error branch without its assignment.
ItemError_StatusKept(f, i) == f

\* file.status = 'error' on the file of the iteration.
ItemError(f, i) == [f EXCEPT ![i + 1].status = "error"]

\* The success branch that takes the ratio from the size shown in the list.
ItemSuccess_ListSize(f, i, originalSize, compressedSize) ==
    [f EXCEPT ![i + 1].status = "success",
              ![i + 1].compressedSize = compressedSize,
              ![i + 1].compressionRatio =
                  Round((f[i + 1].size - compressedSize) * 100, f[i + 1].size)]

\* The three assignments of the success branch.
ItemSuccess(f, i, originalSize, compressedSize) ==
    [f EXCEPT ![i + 1].status = "success",
              ![i + 1].compressedSize = compressedSize,
              ![i + 1].compressionRatio = Ratio(originalSize, compressedSize)]

\* The branch buildFileData takes for a file.
BuildBranch(file) ==
    IF file.path # << >> THEN "path"
    ELSE IF file.url = "blob:" THEN "blob"
    ELSE "null"

\* The loop that steps over every second file: index += 2.
NextIndex_SkipOne(i) == i + 2

\* index += 1
NextIndex(i) == i + 1

\* The loop that ends at the first error (a break in the catch).
LoopContinues_BreakOnError(f, i) ==
    i < Len(f) /\ (i = 0 \/ f[i].status # "error")

\* The loop that stops one file short.
LoopContinues_OffByOne(f, i) == i + 1 < Len(f)

\* The loop test: index < files.value.length, read anew at every iteration.
LoopContinues(f, i) == i < Len(f)

\* The end of a call whose outer finally leaves isCompressing set.
Finished_StillCompressing(f, progress, oc) ==
    [files |-> f, index |-> 0, processedCount |-> 0,
     totalProgress |-> IF Len(f) > 0 THEN 100 ELSE progress,
     outcomes |-> oc, pc |-> "idle", isCompressing |-> TRUE]

\* The end of the call: the loop is over and the outer finally has run.
Finished(f, progress, oc) ==
    [files |-> f, index |-> 0, processedCount |-> 0,
     totalProgress |-> IF Len(f) > 0 THEN 100 ELSE progress,
     outcomes |-> oc, pc |-> "idle", isCompressing |-> FALSE]

\* The for loop from its test at index i up to the next await: a file whose
\* buildFileData returns null is set to error on the way.
RECURSIVE Iterate(_, _, _, _, _)
Iterate(f, i, count, progress, oc) ==
    IF LoopContinues(f, i)
    THEN IF BuildBranch(f[i + 1]) # "null"
         THEN [files |-> f, index |-> i, processedCount |-> count,
               totalProgress |-> progress, outcomes |-> oc, pc |-> "build",
               isCompressing |-> TRUE]
         ELSE Iterate(ItemError(f, i), NextIndex(i), count + 1,
                      Progress(count + 1, Len(f)), Append(oc, i))
    ELSE Finished(f, progress, oc)

\* The inner finally of iteration i, then the loop from the next index.
\* f holds the status the iteration has just set.
FinishItem(f, i, count, oc) ==
    Iterate(f, NextIndex(i), count + 1, Progress(count + 1, Len(f)), Append(oc, i))

\* The assignment of a loop state to the variables of the call.
Resume(r) ==
    /\ files' = r.files
    /\ index' = r.index
    /\ processedCount' = r.processedCount
    /\ totalProgress' = r.totalProgress
    /\ outcomes' = r.outcomes
    /\ pc' = r.pc
    /\ isCompressing' = r.isCompressing

\* The Compress button that stays enabled while a batch runs.
compressDisabled_Never == FALSE

\* :disabled of the Compress button while a batch runs (line 1778).
compressDisabled == isCompressing

\* The click on Compress.  The handler's own guards decide the rest: the
\* empty list, the missing path.
compressImages ==
    /\ eventLoopFree
    /\ ~compressDisabled
    /\ IF listEmpty(files)
       THEN UNCHANGED vars
       ELSE IF submissionBlocked(files, outputPath)
       THEN /\ alertOpen' = TRUE
            /\ UNCHANGED <<files, outputPath, settings, importing, disk, changes, storage>>
            /\ UNCHANGED batchVars
       ELSE /\ startLen' = Len(files)
            /\ sent' = << >>
            /\ Resume(Iterate(MarkProcessing(files), 0, 0, 0, << >>))
            /\ UNCHANGED <<outputPath, settings, alertOpen, importing, disk,
                           changes, request, response, storage>>

\* The user closes the alert.
dismissAlert ==
    /\ alertOpen
    /\ alertOpen' = FALSE
    /\ UNCHANGED <<files, outputPath, settings, importing, disk, changes, storage>>
    /\ UNCHANGED batchVars

\* The object with a 1-based sourceIndex.
FileData_OneBased(file, i, data) ==
    [name |-> file.name, data |-> data, format |-> toLowerCase(file.format),
     sourceIndex |-> i + 1,
     sourcePath |-> IF file.path # << >> THEN Some(file.path) ELSE Undefined]

\* The object buildFileData returns; data is the length of the bytes read.
FileData(file, i, data) ==
    [name |-> file.name, data |-> data, format |-> toLowerCase(file.format),
     sourceIndex |-> i,
     sourcePath |-> IF file.path # << >> THEN Some(file.path) ELSE Undefined]

\* The arguments with preserveExif taken from a setting: !settings.lossless.
InvokeArgs_ExifFromSetting(fileData, s, out) ==
    [fileData |-> <<fileData>>, lossless |-> s.lossless,
     qualityJpg |-> s.qualityJpg, qualityWebp |-> s.qualityWebp,
     qualityPng |-> s.qualityPng, preserveExif |-> ~s.lossless,
     outputPath |-> IF out # "" THEN Some(out) ELSE Undefined]

\* The arguments with outputPath: outputPath.value (no "|| undefined").
InvokeArgs_EmptyString(fileData, s, out) ==
    [fileData |-> <<fileData>>, lossless |-> s.lossless,
     qualityJpg |-> s.qualityJpg, qualityWebp |-> s.qualityWebp,
     qualityPng |-> s.qualityPng, preserveExif |-> TRUE,
     outputPath |-> Some(out)]

\* The arguments of invoke('compress_uploaded_files', ...).
InvokeArgs(fileData, s, out) ==
    [fileData |-> <<fileData>>, lossless |-> s.lossless,
     qualityJpg |-> s.qualityJpg, qualityWebp |-> s.qualityWebp,
     qualityPng |-> s.qualityPng, preserveExif |-> TRUE,
     outputPath |-> IF out # "" THEN Some(out) ELSE Undefined]

\* The bytes buildFileData reads: the file on the disk, or the dropped blob.
BytesOf(file) == IF file.path # << >> THEN disk[file.path] ELSE file.size

\* buildFileData resolved: the request is sent.
buildFileDataResolved ==
    /\ eventLoopFree
    /\ pc = "build"
    /\ LET file == files[index + 1]
           req == InvokeArgs(FileData(file, index, BytesOf(file)), settings, outputPath)
       IN  /\ request' = <<req>>
           /\ sent' = Append(sent, req)
    /\ pc' = "invoke"
    /\ UNCHANGED <<files, isCompressing, totalProgress, outputPath, settings,
                   alertOpen, index, processedCount, response, importing, disk,
                   outcomes, startLen, changes, storage>>

\* buildFileData rejected (readFile, fetch or the FileReader): the catch.
buildFileDataRejected ==
    /\ eventLoopFree
    /\ pc = "build"
    /\ Resume(FinishItem(ItemError(files, index), index, processedCount, outcomes))
    /\ UNCHANGED <<outputPath, settings, alertOpen, request, response, importing,
                   disk, sent, startLen, changes, storage>>

\* ---------------------------------------------------------------- backend

\* Section 4.7: the destination of an item, << >> when there is none.
Destination(req) ==
    LET item == req.fileData[1]
    IN  IF req.outputPath # Undefined THEN Some(<<req.outputPath[1], item.name>>)
        ELSE item.sourcePath

\* One element of the list the backend returns:
\* [name, originalSize, compressedSize, status, ratio].
ResultTuple(item, status, compressedSize) ==
    <<item.name, item.data, compressedSize, status,
      IF status = "success" THEN Ratio(item.data, compressedSize) ELSE 0>>

\* The results the backend may return for a request (sections 3, 4.7, 7): an
\* item without destination fails; any other item fails or succeeds.
BackendResults(req) ==
    LET item == req.fileData[1]
    IN  { ResultTuple(item, "error", 0) } \cup
        IF Destination(req) = Undefined THEN {}
        ELSE { ResultTuple(item, "success", c) : c \in CompressedSizes }

\* The disk after the backend has returned result for req.
Written(req, result) ==
    LET dest == Destination(req)
    IN  IF result[4] = "success" /\ dest # Undefined /\ dest[1] \in DOMAIN disk
        THEN [disk EXCEPT ![dest[1]] = result[3]]
        ELSE disk

\* The backend answers the request with one result.
backendReturns ==
    /\ request # << >> /\ response = << >>
    /\ \E result \in BackendResults(request[1]) :
          /\ response' = <<[kind |-> "resolve", results |-> <<result>>]>>
          /\ disk' = Written(request[1], result)
    /\ request' = << >>
    /\ UNCHANGED <<files, isCompressing, totalProgress, outputPath, settings,
                   alertOpen, pc, index, processedCount, importing, sent,
                   outcomes, startLen, changes, storage>>

\* The call fails (the promise rejects) or resolves with an empty list.
backendFails ==
    /\ request # << >> /\ response = << >>
    /\ \E kind \in {"reject", "resolve"} :
          response' = <<[kind |-> kind, results |-> << >>]>>
    /\ request' = << >>
    /\ UNCHANGED <<files, isCompressing, totalProgress, outputPath, settings,
                   alertOpen, pc, index, processedCount, importing, disk, sent,
                   outcomes, startLen, changes, storage>>

\* The continuation that does not look at the status of the result.
Settled_IgnoreStatus(f, i, answer) ==
    IF answer.kind = "reject" \/ Len(answer.results) = 0
    THEN ItemError(f, i)
    ELSE ItemSuccess(f, i, answer.results[1][2], answer.results[1][3])

\* The status the continuation of invoke sets on file i, given the answer.
Settled(f, i, answer) ==
    IF answer.kind = "reject" \/ Len(answer.results) = 0
    THEN ItemError(f, i)
    ELSE LET result == answer.results[1]
         IN  IF result[4] = "success"
             THEN ItemSuccess(f, i, result[2], result[3])
             ELSE ItemError(f, i)

\* The continuation of await invoke(...), resolved or rejected.
invokeSettled ==
    /\ eventLoopFree
    /\ pc = "invoke" /\ response # << >>
    /\ Resume(FinishItem(Settled(files, index, response[1]), index,
                         processedCount, outcomes))
    /\ response' = << >>
    /\ UNCHANGED <<outputPath, settings, alertOpen, request, importing, disk,
                   sent, startLen, changes, storage>>


\* ------------------------------------------------------------ specification

Next ==
    \/ dismissAlert
    \/ selectFiles
    \/ onDragDropEvent
    \/ addFileByPathStat
    \/ addFileByPathResolved
    \/ addFileByPathRejected
    \/ processFile
    \/ clearFiles
    \/ toggleLossless
    \/ setQualityJpg
    \/ setQualityWebp
    \/ setQualityPng
    \/ setTheme
    \/ selectOutputPath
    \/ compressImages
    \/ buildFileDataResolved
    \/ buildFileDataRejected
    \/ backendReturns
    \/ backendFails
    \/ invokeSettled

Spec == Init /\ [][Next]_vars

\* The sessions of the application with restarts between them.
NextWithRestart ==
    \/ Next
    \/ restart

SpecWithRestart == Init /\ [][NextWithRestart]_vars

\* The imports alone, with calls of addFileByPath that overlap: a selection
\* or a native drop while an earlier call still awaits stat or readFile.
NextImports ==
    \/ selectFilesWithin(MaxOverlapping)
    \/ onDragDropEventWithin(MaxOverlapping)
    \/ addFileByPathStat
    \/ addFileByPathResolved
    \/ addFileByPathRejected
    \/ processFile
    \/ clearFiles
    \/ selectOutputPath

SpecImports == Init /\ [][NextImports]_vars

\* The batches over a list of dropped copies of one image, which grows to
\* MaxGrownFiles files, before and during the batches.
NextGrowingList ==
    \/ processFileWithin(ImageDrops, MaxGrownFiles)
    \/ selectOutputPath
    \/ clearFiles
    \/ dismissAlert
    \/ compressImages
    \/ buildFileDataResolved
    \/ buildFileDataRejected
    \/ backendReturns
    \/ backendFails
    \/ invokeSettled

SpecGrowingList == Init /\ [][NextGrowingList]_vars

\* The step the running call is waiting for eventually happens: the read of
\* buildFileData and the backend call are eventually resolved or rejected,
\* and the event loop eventually runs the continuation of a settled call.
\* At any moment of a batch exactly one of the five is enabled, and it stays
\* enabled until it is taken.
Fairness ==
    WF_vars(\/ buildFileDataResolved \/ buildFileDataRejected
            \/ backendReturns \/ backendFails
            \/ invokeSettled)

SpecFair == Init /\ [][Next]_vars /\ Fairness

\* ------------------------------------------------------------------ claims

Terminal == {"success", "error"}

\* Number of occurrences of x in the sequence s.
Count(s, x) == Cardinality({k \in 1..Len(s) : s[k] = x})

\* C1: every request sent to the backend carries a defined sourcePath or a
\* defined (non-empty) outputPath, in every interleaving of UI events.
C1_EveryRequestHasDestination ==
    \A k \in 1..Len(sent) :
        sent[k].fileData[1].sourcePath # Undefined \/ sent[k].outputPath # Undefined

\* C2: a run of compressImages on an empty list, or without output folder
\* on a list holding a file without path, sends no request and leaves the
\* files, isCompressing (false) and totalProgress as they were.
C2_BlockedSubmissionChangesNothing ==
    [][(/\ compressImages
        /\ \/ Len(files) = 0
           \/ outputPath = "" /\ \E i \in 1..Len(files) : files[i].path = << >>)
       => /\ files' = files
          /\ request' = request /\ sent' = sent /\ response' = response
          /\ isCompressing = FALSE /\ isCompressing' = FALSE
          /\ totalProgress' = totalProgress
          /\ pc' = pc /\ index' = index]_vars

\* The alert of a blocked submission is on screen: no folder, a file
\* without path, and nothing has started.
C2_Witness ==
    /\ alertOpen
    /\ outputPath = "" /\ \E i \in 1..Len(files) : files[i].path = << >>
    /\ \E i \in 1..Len(files) : files[i].path # << >>
    /\ ~isCompressing /\ request = << >>

\* C3: all the requests of one batch run carry the same lossless, qualityJpg,
\* qualityWebp, qualityPng and outputPath.
C3_OneSettingsSnapshotPerBatch ==
    \A j, k \in 1..Len(sent) :
        /\ sent[j].lossless = sent[k].lossless
        /\ sent[j].qualityJpg = sent[k].qualityJpg
        /\ sent[j].qualityWebp = sent[k].qualityWebp
        /\ sent[j].qualityPng = sent[k].qualityPng
        /\ sent[j].outputPath = sent[k].outputPath

\* The step sets the file at the index of the running call to success or
\* error: the outcome of one iteration.
OutcomeStep == isCompressing /\ outcomes' = Append(outcomes, index)

\* The outcome of the step is an error: a rejected read, a rejected call, an
\* empty result list or a result whose status is not success.
FailureStep == OutcomeStep /\ files'[index + 1].status = "error"

\* C4 as stated: a file whose status is success or error keeps it in every
\* step, a second click on Compress included.
C4_TerminalStatusNeverChanges ==
    [][\A i \in 1..Len(files) :
          (files[i].status \in Terminal /\ i <= Len(files'))
          => files'[i].status = files[i].status]_vars

\* C4 amended: a status success or error changes in one way only, when
\* compressImages starts a new batch and sets the file to processing; no
\* step of a running batch and no other handler changes it, and it never
\* becomes pending.
C4_TerminalStatusChangesOnlyAtBatchStart ==
    [][\A i \in 1..Len(files) :
          (/\ files[i].status \in Terminal
           /\ i <= Len(files')
           /\ files'[i].status # files[i].status)
          => /\ compressImages
             /\ ~isCompressing /\ isCompressing'
             /\ files'[i].status = "processing"]_vars

\* A second batch has set a file that had succeeded back to processing, next
\* to a file of the running batch that is already settled again.
C4_Witness ==
    /\ isCompressing
    /\ \E i, j \in 1..Len(files) :
          /\ files[i].status = "processing" /\ files[i].compressedSize > 0
          /\ files[j].status \in Terminal /\ Count(outcomes, j - 1) = 1

\* C5: a file becomes success or error only from status processing.
C5_TerminalOnlyFromProcessing ==
    [][\A i \in 1..Len(files) :
          (/\ i <= Len(files')
           /\ files'[i].status \in Terminal
           /\ files'[i].status # files[i].status)
          => files[i].status = "processing"]_vars

\* C6: a failure of one file changes the status of that file and nothing
\* else in the list: every other file keeps all its fields.
C6_FailureTouchesOneFile ==
    [][FailureStep
       => /\ Len(files') = Len(files)
          /\ \A j \in 1..Len(files) : j # index + 1 => files'[j] = files[j]
          /\ files'[index + 1] = [files[index + 1] EXCEPT !.status = "error"]]_vars

\* The second file of a batch has failed and the first one, which had
\* succeeded, still shows its result.
C6_Witness ==
    /\ Len(files) = 2 /\ outcomes = <<0, 1>>
    /\ files[1].status = "success" /\ files[1].compressedSize > 0
    /\ files[2].status = "error"

\* C7: a failure at index i sets that file to error and the batch goes on
\* with index i + 1 when there is one; the batch ends only when every file
\* of the list has had its outcome.
C7_BatchContinuesAfterError ==
    [][/\ FailureStep
          => /\ files'[index + 1].status = "error"
             /\ IF index + 1 < Len(files)
                THEN isCompressing' /\ index' = index + 1 /\ pc' = "build"
                ELSE ~isCompressing'
       /\ (isCompressing /\ ~isCompressing')
          => /\ Len(outcomes') = Len(files')
             /\ \A i \in 1..Len(files') : Count(outcomes', i - 1) = 1]_vars

\* A batch has ended whose first file failed and whose second file, handled
\* after the failure, succeeded.
C7_Witness ==
    /\ ~isCompressing /\ Len(files) = 2 /\ outcomes = <<0, 1>>
    /\ files[1].status = "error" /\ files[2].status = "success"

\* C8: for every file that was in the list when the batch started, at most
\* one request is sent and the status is set to success or error at most
\* once while the batch runs; when the batch has ended, exactly once, and the
\* status is success or error.
C8_ExactlyOneOutcomePerFile ==
    \A i \in 1..startLen :
        /\ i <= Len(files)
        /\ Cardinality({k \in 1..Len(sent) : sent[k].fileData[1].sourceIndex = i - 1}) <= 1
        /\ Count(outcomes, i - 1) <= 1
        /\ ~isCompressing
           => Count(outcomes, i - 1) = 1 /\ files[i].status \in Terminal

\* A batch over two files has ended: two requests were sent, one per file.
C8_Witness ==
    /\ ~isCompressing /\ startLen = 2 /\ Len(sent) = 2
    /\ sent[1].fileData[1].sourceIndex = 0 /\ sent[2].fileData[1].sourceIndex = 1
    /\ \A i \in 1..2 : files[i].status \in Terminal

\* C9: a file whose status is error has compressedSize 0.
C9_ErrorHasNoCompressedSize ==
    \A i \in 1..Len(files) : files[i].status = "error" => files[i].compressedSize = 0

\* C10: a step that sets a file to success is the delivery of a result with
\* status success, and writes compressedSize and the ratio
\* round((1 - compressedSize / originalSize) * 100) of that result; no other
\* step writes compressionRatio, and a file enters the list with ratio 0.
C10_RatioFromResultOnSuccessOnly ==
    [][/\ \A i \in 1..Len(files) :
          i <= Len(files')
          => /\ (files'[i].status = "success" /\ files[i].status # "success")
                => /\ OutcomeStep /\ index = i - 1
                   /\ response # << >>
                   /\ response[1].kind = "resolve"
                   /\ Len(response[1].results) > 0
                   /\ LET originalSize == response[1].results[1][2]
                          compressedSize == response[1].results[1][3]
                      IN  /\ response[1].results[1][4] = "success"
                          /\ files'[i].compressedSize = compressedSize
                          /\ files'[i].compressionRatio =
                                (200 * (originalSize - compressedSize) + originalSize)
                                   \div (2 * originalSize)
             /\ files'[i].compressionRatio # files[i].compressionRatio
                => OutcomeStep /\ index = i - 1 /\ files'[i].status = "success"
       /\ \A i \in (Len(files) + 1)..Len(files') :
             files'[i].compressionRatio = 0]_vars

\* A file read again after an earlier batch had overwritten it has succeeded
\* with a result whose originalSize is not the size shown in the list.
C10_Witness ==
    \E i \in 1..Len(files) :
        /\ files[i].status = "success"
        /\ files[i].size = 251 /\ files[i].compressedSize = 50
        /\ files[i].compressionRatio = 0

\* The step records a success on the file of the running iteration.
SuccessStep ==
    /\ OutcomeStep /\ files'[index + 1].status = "success"
    /\ response # << >> /\ Len(response[1].results) > 0

\* C11 as stated: a successful result with 0 < compressedSize < originalSize
\* records a ratio strictly greater than 0.
C11_SavingGivesPositiveRatio ==
    [][(/\ SuccessStep
        /\ 0 < response[1].results[1][3]
        /\ response[1].results[1][3] < response[1].results[1][2])
       => files'[index + 1].compressionRatio > 0]_vars

\* C11 amended: a successful result with 0 < compressedSize < originalSize
\* records an integer ratio in 0..100 that is greater than 0 exactly when
\* the saving is at least half a percent of originalSize.
C11_RatioPositiveFromHalfPercent ==
    [][(/\ SuccessStep
        /\ 0 < response[1].results[1][3]
        /\ response[1].results[1][3] < response[1].results[1][2])
       => LET originalSize == response[1].results[1][2]
              compressedSize == response[1].results[1][3]
              ratio == files'[index + 1].compressionRatio
          IN  /\ ratio \in 0..100
              /\ ratio > 0 <=> 200 * (originalSize - compressedSize) >= originalSize]_vars

\* A file of 251 bytes was compressed to 250 bytes and its recorded ratio is 0.
C11_Witness ==
    /\ outcomes = <<0>> /\ Len(sent) = 1 /\ sent[1].fileData[1].data = 251
    /\ files[1].status = "success"
    /\ files[1].compressedSize = 250 /\ files[1].compressionRatio = 0

\* C12: every request sent to the backend carries a format tag that is one
\* of jpeg, png, webp, however the file was imported and named.
C12_RequestFormatIsSupported ==
    \A k \in 1..Len(sent) : sent[k].fileData[1].format \in {"jpeg", "png", "webp"}

\* C13: every file of the list has a format, derived from its extension,
\* that is one of PNG, JPG, JPEG, WEBP.
C13_ListedFormatIsSupported ==
    \A i \in 1..Len(files) :
        /\ files[i].format = FormatOf(files[i].name)
        /\ files[i].format \in {"PNG", "JPG", "JPEG", "WEBP"}

\* The step sends a request: the last request of sent' is new.
SendStep == Len(sent') = Len(sent) + 1

\* C14: a request carries the position in the list of the file it was built
\* from, and the outcome of the request is recorded on the file at that
\* position, which is still that file, and on no other file.
C14_OutcomeOnTheRequestedFile ==
    [][/\ SendStep
          => LET item == sent'[Len(sent')].fileData[1]
             IN  /\ item.sourceIndex = index
                 /\ item.sourceIndex < Len(files)
                 /\ files[item.sourceIndex + 1].name = item.name
                 /\ files[item.sourceIndex + 1].status \notin Terminal
       /\ (OutcomeStep /\ pc = "invoke")
          => LET item == sent[Len(sent)].fileData[1]
             IN  /\ Len(files') = Len(files)
                 /\ files[item.sourceIndex + 1].name = item.name
                 /\ files'[item.sourceIndex + 1].status \in Terminal
                 /\ \A j \in 1..Len(files) :
                       j # item.sourceIndex + 1 => files'[j] = files[j]]_vars

\* The outcome of the request for the first file was recorded on it while the
\* list had grown by a file that the batch had not started with.
C14_Witness ==
    /\ isCompressing /\ startLen = 1 /\ Len(files) = 2
    /\ Len(sent) = 1 /\ sent[1].fileData[1].sourceIndex = 0
    /\ outcomes = <<0>>
    /\ files[1].status = "success" /\ files[2].status = "pending"

\* C15: every request carries qualityJpg, qualityWebp and qualityPng in
\* 10..100, after any slider changes and any restarts.
C15_RequestQualitiesInRange ==
    \A k \in 1..Len(sent) :
        /\ sent[k].qualityJpg \in 10..100
        /\ sent[k].qualityWebp \in 10..100
        /\ sent[k].qualityPng \in 10..100

\* A request has been sent with the JPG quality that a slider had set to its
\* minimum before a restart, which read it back from the local storage.
C15_Witness ==
    /\ restored /\ changes = 1
    /\ Len(sent) = 1 /\ sent[1].qualityJpg = 10
    /\ sent[1].qualityWebp = 65 /\ sent[1].qualityPng = 80

\* C16: a file enters the list with the path it was imported from (none for
\* a browser drop) and keeps it; a request carries that path as sourcePath
\* (absent when there is none) and the output folder selected at that moment
\* (absent when none is selected).
C16_RequestPathsAreTheImportedOnes ==
    [][/\ \A i \in 1..Len(files') :
             IF i <= Len(files)
             THEN files'[i].path = files[i].path
             ELSE \/ files'[i].path = << >>
                  \/ \E k \in 1..Len(importing) : files'[i].path = importing[k].path
       /\ SendStep
          => LET req == sent'[Len(sent')]
                 file == files[index + 1]
             IN  /\ req.fileData[1].sourcePath =
                       IF file.path = << >> THEN Undefined ELSE <<file.path>>
                 /\ req.outputPath =
                       IF outputPath = "" THEN Undefined ELSE <<outputPath>>]_vars

\* A file picked at d/a.png has been submitted without output folder: the
\* request names d/a.png as the place to overwrite.
C16_Witness ==
    /\ Len(sent) = 1 /\ outputPath = ""
    /\ files[1].path = <<"d", NameA>>
    /\ sent[1].fileData[1].sourcePath = << <<"d", NameA>> >>
    /\ sent[1].outputPath = << >>

\* C17: a restart restores the settings and the output folder to the values
\* they had last, and keeps a stored output folder in the local storage.
C17_RestartRestoresSettings ==
    [][restart
       => /\ settings' = settings
          /\ outputPath' = outputPath
          /\ storedOutputPath # Undefined
             => /\ storedOutputPath' = storedOutputPath
                /\ outputPath' = storedOutputPath[1]]_vars

\* The application has just been started again and shows the lossless
\* setting and the output folder chosen before the restart.
C17_Witness ==
    /\ restored /\ Len(files) = 0 /\ changes = 1
    /\ settings = [DefaultSettings EXCEPT !.lossless = TRUE]
    /\ outputPath = "o"
    /\ storedSettings = <<Stringify(settings)>>
    /\ storedOutputPath = <<"o">>

\* C18: every request asks for metadata preservation (preserveExif is
\* true), whatever the settings are.
C18_RequestPreservesExif ==
    \A k \in 1..Len(sent) : sent[k].preserveExif = TRUE

\* A request sent with lossless switched on asks for metadata preservation.
C18_Witness ==
    /\ Len(sent) = 1 /\ sent[1].lossless /\ sent[1].preserveExif
    /\ settings.lossless /\ request # << >>

\* The request has neither a sourcePath nor an outputPath.
NoDestination(req) ==
    req.fileData[1].sourcePath = Undefined /\ req.outputPath = Undefined

\* C19: the backend answers a request without sourcePath and outputPath
\* with an error and writes nothing, and the file of that request is set to
\* error, not to success.
C19_NoDestinationEndsInError ==
    [][/\ (request # << >> /\ NoDestination(request[1]) /\ response' # response)
          => /\ disk' = disk
             /\ \A k \in 1..Len(response'[1].results) :
                   response'[1].results[k][4] = "error"
       /\ (OutcomeStep /\ pc = "invoke" /\ NoDestination(sent[Len(sent)]))
          => /\ files'[index + 1].status = "error"
             /\ files'[index + 1].compressedSize = 0
             /\ disk' = disk]_vars

\* A file dropped during a batch was submitted without sourcePath and
\* outputPath, the call was answered and the file shows error.
C19_Witness ==
    /\ Len(sent) = 2 /\ NoDestination(sent[2])
    /\ outcomes = <<0, 1>>
    /\ files[2].status = "error" /\ files[2].compressedSize = 0
    /\ files[2].path = << >> /\ outputPath = ""
    /\ files[1].status = "success"

\* The answer being delivered is a resolved call whose first result has
\* status success.
AnswerIsSuccess ==
    /\ pc = "invoke" /\ response # << >>
    /\ response[1].kind = "resolve"
    /\ Len(response[1].results) > 0
    /\ response[1].results[1][4] = "success"

\* C20: the outcome of an iteration is success when the call resolved with a
\* first result of status success and error in every other case (rejected
\* read, rejected call, empty result list, other status); a file becomes
\* success in no other step.
C20_SuccessOnlyOnSuccessResult ==
    [][/\ OutcomeStep
          => files'[index + 1].status = IF AnswerIsSuccess THEN "success" ELSE "error"
       /\ \A i \in 1..Len(files') :
             (files'[i].status = "success" /\ (i > Len(files) \/ files[i].status # "success"))
             => OutcomeStep /\ index = i - 1 /\ AnswerIsSuccess]_vars

\* The read of the first file was rejected (no request was sent for it) and
\* it shows error; the second file was submitted and shows success.
C20_Witness ==
    /\ outcomes = <<0, 1>> /\ Len(sent) = 1
    /\ sent[1].fileData[1].sourceIndex = 1
    /\ files[1].status = "error" /\ files[1].compressedSize = 0
    /\ files[2].status = "success" /\ files[2].compressedSize > 0

\* C21: at most one request is in flight and it carries one item; a request
\* is sent only while no other request or answer is pending and after every
\* file before it in the list has reached success or error; a run of
\* compressImages starts only while no other run is under way.
C21_OneRequestInFlight ==
    [][/\ Len(request) + Len(response) <= 1
       /\ (request # << >> \/ response # << >>) => (isCompressing /\ pc = "invoke")
       /\ pc # "idle" => isCompressing
       /\ SendStep
          => /\ request = << >> /\ response = << >>
             /\ request' = <<sent'[Len(sent')]>>
             /\ Len(sent'[Len(sent')].fileData) = 1
             /\ \A j \in 1..index : files[j].status \in Terminal
             /\ files[index + 1].status \notin Terminal
       /\ (compressImages /\ files' # files)
          => /\ ~isCompressing /\ pc = "idle"
             /\ request = << >> /\ response = << >>]_vars

\* The request for the second file is in flight: the first file has its
\* outcome and the second one is still processing.
C21_Witness ==
    /\ isCompressing /\ pc = "invoke" /\ index = 1
    /\ Len(sent) = 2 /\ request = <<sent[2]>> /\ response = << >>
    /\ files[1].status \in Terminal /\ files[2].status = "processing"

\* C22: whenever isCompressing is false no file of the list has status
\* processing.
C22_NoProcessingOutsideBatch ==
    ~isCompressing => \A i \in 1..Len(files) : files[i].status # "processing"

\* A batch that started with one file has ended after a second file was
\* added to the list while it ran: both files have their outcome.
C22_Witness ==
    /\ ~isCompressing /\ startLen = 1 /\ Len(files) = 2
    /\ outcomes = <<0, 1>>
    /\ \A i \in 1..2 : files[i].status \in Terminal

\* C23: every batch that starts eventually ends: when every read and every
\* backend call is eventually answered, isCompressing returns to false,
\* whatever the outcomes are and whatever is added to the list meanwhile.
C23_BatchEventuallyEnds == isCompressing ~> ~isCompressing

\* A batch over two files has ended, one file failed and one succeeded.
C23_Witness ==
    /\ ~isCompressing /\ pc = "idle" /\ startLen = 2 /\ Len(outcomes) = 2
    /\ request = << >> /\ response = << >>
    /\ \E i, j \in 1..2 : files[i].status = "error" /\ files[j].status = "success"

\* C24: the list never holds two entries with the same non-empty path, in
\* any interleaving of selections and native drops, overlapping ones included.
C24_NoDuplicatePath ==
    \A i, j \in 1..Len(files) :
        (i # j /\ files[i].path # << >>) => files[i].path # files[j].path

\* C25: when the k-th file of a batch gets its outcome totalProgress becomes
\* round(k / current list length * 100); it is 0 when a batch starts and 100
\* when a batch ends, which happens over a non-empty list only.
C25_ProgressPerCompletedFile ==
    [][/\ OutcomeStep
          => LET k == Len(outcomes')
                 length == Len(files')
             IN  totalProgress' = (200 * k + length) \div (2 * length)
       /\ (~isCompressing /\ isCompressing') => totalProgress' = 0
       /\ (isCompressing /\ ~isCompressing')
          => Len(files') > 0 /\ totalProgress' = 100]_vars

\* The only file of a batch has its outcome after a second file was added:
\* one file of two is done and the progress is 50.
C25_Witness ==
    /\ isCompressing /\ startLen = 1 /\ Len(files) = 2
    /\ outcomes = <<0>> /\ processedCount = 1 /\ totalProgress = 50

\* C26: while a batch runs totalProgress does not decrease from one
\* completed file to the next, files added during the batch included.
C26_ProgressNeverDecreases ==
    [][(OutcomeStep /\ Len(outcomes) > 0) => totalProgress' >= totalProgress]_vars

\* C27: totalProgress is an integer in 0..100, and the number of files
\* processed in the running batch never exceeds the length of the list.
C27_ProgressAndCountInRange ==
    /\ totalProgress \in 0..100
    /\ processedCount \in 0..Len(files)
    /\ Len(outcomes) <= Len(files)
    /\ isCompressing => processedCount = Len(outcomes)

\* A batch that started with one file has ended with two files processed,
\* as many as the list holds, and the progress is 100.
C27_Witness ==
    /\ ~isCompressing /\ totalProgress = 100
    /\ startLen = 1 /\ Len(outcomes) = 2 /\ Len(files) = 2

\* The two list entries denote the same file.
SameFile(a, b) ==
    /\ a.name = b.name /\ a.path = b.path /\ a.size = b.size
    /\ a.format = b.format /\ a.url = b.url

\* C28: in every step of a running batch, its first and its last step
\* included, the list is only appended to: it does not get shorter and every
\* index keeps denoting the same file.
C28_ListOnlyGrowsDuringBatch ==
    [][(isCompressing \/ isCompressing')
       => /\ Len(files') >= Len(files)
          /\ \A i \in 1..Len(files) : SameFile(files'[i], files[i])]_vars

\* A file imported from the disk was appended while the batch was handling
\* the first file, which is still the first entry.
C28_Witness ==
    /\ isCompressing /\ startLen = 1 /\ Len(files) = 2 /\ index = 0
    /\ files[1].status = "processing" /\ files[1].path = << >>
    /\ files[2].status = "pending" /\ files[2].path = <<"d", NameA>>

\* C29: when a file is set to success, the size shown for it (file.size,
\* taken at import) equals the originalSize of the result its ratio is
\* computed from, a second compression of the same list included.
C29_ShownSizeIsOriginalSize ==
    [][SuccessStep => files'[index + 1].size = response[1].results[1][2]]_vars
====
